---- MODULE Spec2Model ----
(***************************************************************************)
(* Ledger engine of the BusinessApp component (src/src/pages_index.tsx):    *)
(* the Orders, Expenses and Clients collections, the order / expense /     *)
(* client handlers, the invoice selection and the derived unpaid total,    *)
(* the invoice table and generateInvoicePdf, and the localStorage load and *)
(* save effects.                                                            *)
(*                                                                         *)
(* Strings on which the code does string operations (client names, dates,  *)
(* months, ids) are sequences of one-character strings, so that trim,      *)
(* toLowerCase, startsWith and Date.now().toString() are computed.  The    *)
(* other text fields (vehicle, orderType, location, ...) are only copied   *)
(* and tested for emptiness and are TLA+ strings.                          *)
(***************************************************************************)
EXTENDS Integers, Sequences, FiniteSets, TLC

VARIABLES
    orders,                    \* useState<Order[]>            (line 47)
    expenses,                  \* useState<Expense[]>          (line 48)
    clients,                   \* useState<Client[]>           (line 49)
    newOrder,                  \* the order draft              (line 70)
    orderPaid,                 \* the draft's paid flag        (line 71)
    editingOrderId,            \* null or the id being edited  (line 72)
    newExpense,                \* the expense draft            (line 74)
    editingExpenseId,          \* null or the id being edited  (line 75)
    newClientName,             \* the add-client input         (line 77)
    showAddClientInput,        \* (line 78)
    selectedClientForInvoice,  \* (line 80)
    selectedMonthForInvoice,   \* (line 81)
    store,                     \* localStorage: the three keys the app uses
    now,                       \* the value Date.now() returns
    phase,                     \* position in the mount sequence, then "ready";
                               \* "crashed" once an effect has thrown
    quotaExceeded,             \* localStorage.setItem throws (QuotaExceededError)
    activeTab,                 \* (line 46)
    invoiceDisplay,            \* style.display of the invoice div (invoiceRef.current)
    pdfJobs,                   \* the generateInvoicePdf calls waiting for their timer
    savedPdf,                  \* the file the last pdf.save wrote
    closed,                    \* history: the collections in memory when the page was
                               \* closed, until the reopened page has rendered them
    lastOp                     \* the handler that ran last and the alert it raised

vars == << orders, expenses, clients, newOrder, orderPaid, editingOrderId,
           newExpense, editingExpenseId, newClientName, showAddClientInput,
           selectedClientForInvoice, selectedMonthForInvoice, store, now,
           phase, quotaExceeded, activeTab, invoiceDisplay, pdfJobs, savedPdf, closed,
           lastOp >>

orderVars   == << orders, newOrder, orderPaid, editingOrderId >>
expenseVars == << expenses, newExpense, editingExpenseId >>
clientVars  == << clients, newClientName, showAddClientInput >>
invoiceVars == << selectedClientForInvoice, selectedMonthForInvoice >>
pdfVars     == << activeTab, invoiceDisplay, pdfJobs, savedPdf >>

----------------------------------------------------------------------------
(* Bounds of the model.                                                    *)

\* Date.now() at the first mount; the clock advances at most MaxTicks times.
StartTime == 100
MaxTicks == 1
\* Longest Orders / Expenses collection the order and expense specs build.
MaxOrders == 2
MaxExpenses == 2
\* Longest Orders collection of the combined specification.
MaxLedgerOrders == 2
\* Longest Clients collection the client spec builds by additions.
MaxClients == 6
\* Longest Orders collection the calculator spec enumerates.
MaxCalcOrders == 3
\* The order specs pick the draft's client among the first MaxClientChoices options.
MaxClientChoices == 1

----------------------------------------------------------------------------
(* JavaScript string operations.                                           *)

UpperCase == << "A","B","C","D","E","F","G","H","I","J","K","L","M",
                "N","O","P","Q","R","S","T","U","V","W","X","Y","Z" >>
LowerCase == << "a","b","c","d","e","f","g","h","i","j","k","l","m",
                "n","o","p","q","r","s","t","u","v","w","x","y","z" >>
WhiteSpace == { " ", "\t" }

ToLowerChar(c) ==
    IF \E i \in 1..26 : UpperCase[i] = c
    THEN LowerCase[CHOOSE i \in 1..26 : UpperCase[i] = c]
    ELSE c

\* String.prototype.toLowerCase
toLowerCase(s) == [i \in 1..Len(s) |-> ToLowerChar(s[i])]

RECURSIVE trimStart(_)
trimStart(s) ==
    IF s # << >> /\ Head(s) \in WhiteSpace THEN trimStart(Tail(s)) ELSE s

RECURSIVE trimEnd(_)
trimEnd(s) ==
    IF s # << >> /\ s[Len(s)] \in WhiteSpace
    THEN trimEnd(SubSeq(s, 1, Len(s) - 1))
    ELSE s

\* String.prototype.trim
trim(s) == trimEnd(trimStart(s))

\* String.prototype.startsWith
startsWith(s, p) == Len(p) <= Len(s) /\ SubSeq(s, 1, Len(p)) = p

Digits == << "0","1","2","3","4","5","6","7","8","9" >>

\* Number.prototype.toString of a non-negative integer (decimal digits).
RECURSIVE toString(_)
toString(n) ==
    IF n < 10 THEN << Digits[n + 1] >>
    ELSE Append(toString(n \div 10), Digits[(n % 10) + 1])

\* null and '' are both falsy; ids are never empty, so one value stands for both.
null == << >>

----------------------------------------------------------------------------
(* Array helpers.  Array.prototype.filter is SelectSeq.                     *)

\* Array.prototype.find on the id, then ?.name ; undefined when nothing is found.
\* undefined never equals a string, which the callers' comparisons rely on.
undefined == << "undefined", "value" >>
findNameById(s, id) ==
    IF \E i \in 1..Len(s) : s[i].id = id
    THEN s[CHOOSE i \in 1..Len(s) : s[i].id = id /\ \A j \in 1..(i - 1) : s[j].id # id].name
    ELSE undefined

\* updatedClients[0]?.name || ''
firstNameOrEmpty(s) == IF Len(s) > 0 THEN s[1].name ELSE << >>

----------------------------------------------------------------------------
(* Program constants and the state after construction.                     *)

\* const predefinedClients
predefinedClients ==
    << [id |-> << "1" >>, name |-> << "H","a","s","s","a","n"," ","B","o","b","o" >>],
       [id |-> << "2" >>, name |-> << "O","m","a","r"," ","S","h","a","r","e","i","f" >>],
       [id |-> << "3" >>, name |-> << "M","u","h","i"," ","A","l","d","e","i","n" >>],
       [id |-> << "4" >>, name |-> << "K","h","a","l","i","f","a"," ","S","h","a","r","e","i","f" >>],
       [id |-> << "5" >>, name |-> << "M","u","t","w","a","l","i" >>] >>

\* new Date().toISOString().split('T')[0] : the calendar day of the session.
Today == << "2","0","2","4","-","0","6","-","1","5" >>

\* defaultNewOrderState, recomputed by every render from predefinedClients
defaultNewOrderState ==
    [ date          |-> Today,
      vehicle       |-> "",
      clientName    |-> firstNameOrEmpty(predefinedClients),
      orderType     |-> "",
      location      |-> "",
      cost          |-> 0,
      price         |-> 0,
      paymentMethod |-> "Cash" ]

\* defaultNewExpenseState
defaultNewExpenseState ==
    [ date        |-> Today,
      plateNumber |-> "",
      type        |-> "Diesel",
      cost        |-> 0,
      description |-> "" ]

----------------------------------------------------------------------------
(* localStorage and JSON.  A stored text is the JSON array of the records: *)
(* per record the set of its key/value members.                            *)

\* JSON.stringify of an array of flat objects
JSONstringify(recs) ==
    [i \in 1..Len(recs) |-> { << k, recs[i][k] >> : k \in DOMAIN recs[i] }]

\* Mutant of JSONparse: the records come out in reverse order.
JSONparseReversed(text) ==
    [i \in 1..Len(text) |->
        [k \in { m[1] : m \in text[Len(text) + 1 - i] } |->
            (CHOOSE m \in text[Len(text) + 1 - i] : m[1] = k)[2]]]

\* JSON.parse of such a text
JSONparse(text) ==
    [i \in 1..Len(text) |->
        [k \in { m[1] : m \in text[i] } |-> (CHOOSE m \in text[i] : m[1] = k)[2]]]

\* localStorage.getItem returns null for a key never written
absent == [present |-> FALSE, text |-> << >>]

\* localStorage.setItem(key, JSON.stringify(value))
setItem(value) == [present |-> TRUE, text |-> JSONstringify(value)]

\* useEffect(() => { localStorage.setItem(key, JSON.stringify(value)) }, [value])
\* running after a handler has set the collection.  setItem is called with no
\* try/catch: when it throws, the error leaves the effect, the key keeps its
\* old text and React unmounts the component tree.
saveEffect(key, value) ==
    IF quotaExceeded
    THEN /\ UNCHANGED store
         /\ phase' = "crashed"
    ELSE /\ store' = [store EXCEPT ![key] = setItem(value)]
         /\ UNCHANGED phase

----------------------------------------------------------------------------
(* Inputs of the model: what the user types or picks.                      *)

\* Values of the order form's inputs other than the client select:
\* date, vehicle, orderType, location, cost, price, paymentMethod, paid.
OrderForm(d, v, t, l, c, p, m, paid) ==
    [ date |-> d, vehicle |-> v, orderType |-> t, location |-> l,
      cost |-> c, price |-> p, paymentMethod |-> m, paid |-> paid ]

May10  == << "2","0","2","4","-","0","5","-","1","0" >>
June02 == << "2","0","2","4","-","0","6","-","0","2" >>

ValidOrderForms ==
    { OrderForm(May10,  "Truck A", "Delivery", "City Center", 60, 100, "Postpaid", FALSE),
      OrderForm(June02, "Truck B", "",         "",            0,  50,  "Cash",     TRUE) }

InvalidOrderForms ==
    { OrderForm(<< >>,  "Truck A", "Delivery", "City Center", 60, 100, "Postpaid", FALSE),
      OrderForm(May10,  "",        "Delivery", "City Center", 60, 100, "Postpaid", FALSE),
      OrderForm(May10,  "Truck A", "Delivery", "City Center", 60, 0,   "Postpaid", FALSE),
      OrderForm(June02, "Truck B", "",         "",            0,  -5,  "Cash",     TRUE) }

OrderForms == ValidOrderForms \cup InvalidOrderForms

\* Texts typed into the add-client input.
ClientNameInputs ==
    { << >>, << " "," " >>, << "A","c","m","e" >>, << " ","a","c","m","e"," " >>, << "A","C","M","E" >>, << " ","m","u","t","w","a","l","i" >> }

\* The months offered by the invoice month select.
May == << "2","0","2","4","-","0","5" >>
Months == { SubSeq(Today, 1, 7), May }

----------------------------------------------------------------------------
(* State after construction (the useState initial values) and the mount    *)
(* sequence.  The effects of one commit run in declaration order: the load *)
(* effect, then the three save effects with the state of that render.      *)

Op(name, alert) == [op |-> name, alert |-> alert]

\* The page has not been closed, or has been opened again and has rendered.
notClosed == [orders |-> << >>, expenses |-> << >>, clients |-> << >>, open |-> TRUE]

\* pdf.save has not been called.
noPdf == [name |-> << >>, client |-> << >>, month |-> << >>, lineItems |-> << >>, total |-> 0]

InitialState ==
    /\ orders = << >>
    /\ expenses = << >>
    /\ clients = predefinedClients
    /\ newOrder = defaultNewOrderState
    /\ orderPaid = TRUE
    /\ editingOrderId = null
    /\ newExpense = defaultNewExpenseState
    /\ editingExpenseId = null
    /\ newClientName = << >>
    /\ showAddClientInput = FALSE
    /\ selectedClientForInvoice = << >>
    /\ selectedMonthForInvoice = SubSeq(Today, 1, 7)
    /\ activeTab = "orders"
    /\ invoiceDisplay = "none"
    /\ pdfJobs = << >>
    /\ savedPdf = noPdf

Init ==
    /\ InitialState
    /\ store = [orders |-> absent, expenses |-> absent, clients |-> absent]
    /\ now = StartTime
    /\ phase = "mount"
    /\ closed = notClosed
    /\ quotaExceeded = FALSE
    /\ lastOp = Op("construct", "")

\* Mutant of LoadEffect: a stored empty client list is replaced by the predefined clients.
LoadEffectSeedingEmpty ==
    /\ phase = "mount"
    /\ orders' = IF store.orders.present THEN JSONparse(store.orders.text) ELSE orders
    /\ expenses' = IF store.expenses.present THEN JSONparse(store.expenses.text) ELSE expenses
    /\ IF store.clients.present
       THEN LET parsedClients == JSONparse(store.clients.text) IN
            /\ clients' = IF Len(parsedClients) > 0 THEN parsedClients ELSE predefinedClients
            /\ IF Len(parsedClients) > 0
               THEN /\ selectedClientForInvoice' = parsedClients[1].name
                    /\ newOrder' = [newOrder EXCEPT !.clientName = parsedClients[1].name]
               ELSE IF Len(predefinedClients) > 0
               THEN /\ selectedClientForInvoice' = predefinedClients[1].name
                    /\ newOrder' = [newOrder EXCEPT !.clientName = predefinedClients[1].name]
               ELSE UNCHANGED << selectedClientForInvoice, newOrder >>
       ELSE /\ UNCHANGED clients
            /\ IF Len(predefinedClients) > 0
               THEN /\ selectedClientForInvoice' = predefinedClients[1].name
                    /\ newOrder' = [newOrder EXCEPT !.clientName = predefinedClients[1].name]
               ELSE UNCHANGED << selectedClientForInvoice, newOrder >>
    /\ phase' = "mountSave"
    /\ lastOp' = Op("LoadEffect", "")
    /\ UNCHANGED << pdfVars, closed, quotaExceeded, orderPaid, editingOrderId, newExpense, editingExpenseId,
                    newClientName, showAddClientInput, selectedMonthForInvoice,
                    store, now >>

\* useEffect(() => { ...load... }, [])
LoadEffect ==
    /\ phase = "mount"
    /\ orders' = IF store.orders.present THEN JSONparse(store.orders.text) ELSE orders
    /\ expenses' = IF store.expenses.present THEN JSONparse(store.expenses.text) ELSE expenses
    /\ IF store.clients.present
       THEN LET parsedClients == JSONparse(store.clients.text) IN
            /\ clients' = parsedClients
            /\ IF Len(parsedClients) > 0
               THEN /\ selectedClientForInvoice' = parsedClients[1].name
                    /\ newOrder' = [newOrder EXCEPT !.clientName = parsedClients[1].name]
               ELSE IF Len(predefinedClients) > 0
               THEN /\ selectedClientForInvoice' = predefinedClients[1].name
                    /\ newOrder' = [newOrder EXCEPT !.clientName = predefinedClients[1].name]
               ELSE UNCHANGED << selectedClientForInvoice, newOrder >>
       ELSE /\ UNCHANGED clients
            /\ IF Len(predefinedClients) > 0
               THEN /\ selectedClientForInvoice' = predefinedClients[1].name
                    /\ newOrder' = [newOrder EXCEPT !.clientName = predefinedClients[1].name]
               ELSE UNCHANGED << selectedClientForInvoice, newOrder >>
    /\ phase' = "mountSave"
    /\ lastOp' = Op("LoadEffect", "")
    /\ UNCHANGED << pdfVars, closed, quotaExceeded, orderPaid, editingOrderId, newExpense, editingExpenseId,
                    newClientName, showAddClientInput, selectedMonthForInvoice,
                    store, now >>

\* The three save effects of the first commit: their closures hold the state of
\* the first render (the useState initial values), not the loaded values.
SaveEffectsOnMount ==
    /\ phase = "mountSave"
    /\ IF quotaExceeded
       THEN /\ UNCHANGED store
            /\ phase' = "crashed"
       ELSE /\ store' = [orders   |-> setItem(<< >>),
                         expenses |-> setItem(<< >>),
                         clients  |-> setItem(predefinedClients)]
            /\ phase' = "rerender"
    /\ lastOp' = Op("SaveEffectsOnMount", "")
    /\ UNCHANGED << pdfVars, closed, quotaExceeded, orderVars, expenseVars, clientVars, invoiceVars, now >>

\* The save effects of the commit that renders the loaded state.  An effect whose
\* dependency did not change is skipped; its key then already holds that value.
SaveEffectsOnLoaded ==
    /\ phase = "rerender"
    /\ IF quotaExceeded
       THEN /\ UNCHANGED store
            /\ phase' = "crashed"
       ELSE /\ store' = [orders   |-> setItem(orders),
                         expenses |-> setItem(expenses),
                         clients  |-> setItem(clients)]
            /\ phase' = "ready"
    /\ closed' = notClosed
    /\ lastOp' = Op("SaveEffectsOnLoaded", "")
    /\ UNCHANGED << pdfVars, quotaExceeded, orderVars, expenseVars, clientVars, invoiceVars, now >>

\* The page is closed and opened again: the component is constructed anew,
\* localStorage is kept.
Restart ==
    /\ phase \in {"ready", "crashed"}
    /\ orders' = << >>
    /\ expenses' = << >>
    /\ clients' = predefinedClients
    /\ newOrder' = defaultNewOrderState
    /\ orderPaid' = TRUE
    /\ editingOrderId' = null
    /\ newExpense' = defaultNewExpenseState
    /\ editingExpenseId' = null
    /\ newClientName' = << >>
    /\ showAddClientInput' = FALSE
    /\ selectedClientForInvoice' = << >>
    /\ selectedMonthForInvoice' = SubSeq(Today, 1, 7)
    /\ phase' = "mount"
    /\ activeTab' = "orders"
    /\ invoiceDisplay' = "none"
    /\ pdfJobs' = << >>
    /\ closed' = [orders |-> orders, expenses |-> expenses, clients |-> clients, open |-> FALSE]
    /\ lastOp' = Op("Restart", "")
    /\ UNCHANGED << store, now, savedPdf, quotaExceeded >>

\* Date.now() has advanced by the time of the next event.
Tick ==
    /\ phase = "ready"
    /\ now' = now + 1
    /\ lastOp' = Op("Tick", "")
    /\ UNCHANGED << pdfVars, closed, quotaExceeded, orderVars, expenseVars, clientVars, invoiceVars, store, phase >>

----------------------------------------------------------------------------
(* Order form and order handlers.                                          *)

\* The onChange handlers of the order form's inputs, applied for one filling of
\* the form: date, vehicle, orderType, location, cost, price, paymentMethod
\* and the Paid? select.  The client select has its own handler.
FillOrderForm(f) ==
    /\ phase = "ready"
    /\ newOrder' = [ date          |-> f.date,
                     vehicle       |-> f.vehicle,
                     clientName    |-> newOrder.clientName,
                     orderType     |-> f.orderType,
                     location      |-> f.location,
                     cost          |-> f.cost,
                     price         |-> f.price,
                     paymentMethod |-> f.paymentMethod ]
    /\ orderPaid' = f.paid
    /\ lastOp' = Op("FillOrderForm", "")
    /\ UNCHANGED << pdfVars, closed, quotaExceeded, orders, editingOrderId, expenseVars, clientVars, invoiceVars,
                    store, now, phase >>

\* onChange of the order form's client select; v is an option value.
SelectOrderClient(v) ==
    /\ phase = "ready"
    /\ IF v = << "add_new" >>
       THEN /\ showAddClientInput' = TRUE
            /\ newOrder' = [newOrder EXCEPT !.clientName = << >>]
       ELSE /\ showAddClientInput' = FALSE
            /\ newOrder' = [newOrder EXCEPT !.clientName = v]
    /\ lastOp' = Op("SelectOrderClient", "")
    /\ UNCHANGED << pdfVars, closed, quotaExceeded, orders, orderPaid, editingOrderId, expenseVars, clients,
                    newClientName, invoiceVars, store, now, phase >>

\* The option values the order form's client select offers.
OrderClientOptions ==
    (IF Len(clients) = 0 THEN { << >> } ELSE {})
        \cup { clients[i].name : i \in 1..Len(clients) }
        \cup { << "add_new" >> }

\* Mutant of OrderOf: the stored paid flag is always true.
OrderOfAlwaysPaid(draft, id, paid) ==
    [ id            |-> id,
      date          |-> draft.date,
      vehicle       |-> draft.vehicle,
      clientName    |-> draft.clientName,
      orderType     |-> draft.orderType,
      location      |-> draft.location,
      cost          |-> draft.cost,
      price         |-> draft.price,
      paymentMethod |-> draft.paymentMethod,
      paid          |-> TRUE ]

\* { ...newOrder, id: id, paid: paid }
OrderOf(draft, id, paid) ==
    [ id            |-> id,
      date          |-> draft.date,
      vehicle       |-> draft.vehicle,
      clientName    |-> draft.clientName,
      orderType     |-> draft.orderType,
      location      |-> draft.location,
      cost          |-> draft.cost,
      price         |-> draft.price,
      paymentMethod |-> draft.paymentMethod,
      paid          |-> paid ]

\* Mutant of OrderDraftRefused: a price of 0 is let through.
OrderDraftRefusedBelowZero(draft) ==
    draft.date = << >> \/ draft.clientName = << >> \/ draft.vehicle = "" \/ draft.price < 0

\* Mutant of OrderDraftRefused: a draft without a client is let through.
OrderDraftRefusedWithoutClient(draft) ==
    draft.date = << >> \/ draft.vehicle = "" \/ draft.price <= 0

\* The guard of handleSaveOrder: true when the draft is refused.
OrderDraftRefused(draft) ==
    draft.date = << >> \/ draft.clientName = << >> \/ draft.vehicle = "" \/ draft.price <= 0

handleSaveOrder ==
    /\ phase = "ready"
    /\ IF OrderDraftRefused(newOrder)
       THEN /\ lastOp' = Op("handleSaveOrder",
                            "Please fill in all required order fields (Date, Client, Vehicle, Price).")
            /\ UNCHANGED << orderVars, store, phase >>
       ELSE /\ IF editingOrderId # null
               THEN /\ orders' = [i \in 1..Len(orders) |->
                                    IF orders[i].id = editingOrderId
                                    THEN OrderOf(newOrder, editingOrderId, orderPaid)
                                    ELSE orders[i]]
                    /\ editingOrderId' = null
               ELSE /\ orders' = Append(orders, OrderOf(newOrder, toString(now), orderPaid))
                    /\ UNCHANGED editingOrderId
            /\ newOrder' = defaultNewOrderState
            /\ orderPaid' = TRUE
            /\ saveEffect("orders", orders')
            /\ lastOp' = Op("handleSaveOrder", "")
    /\ UNCHANGED << pdfVars, closed, quotaExceeded, expenseVars, clientVars, invoiceVars, now >>

handleEditOrder(id) ==
    /\ phase = "ready"
    /\ IF \E i \in 1..Len(orders) : orders[i].id = id
       THEN LET orderToEdit ==
                    orders[CHOOSE i \in 1..Len(orders) :
                              /\ orders[i].id = id
                              /\ \A j \in 1..(i - 1) : orders[j].id # id]
            IN  /\ newOrder' = [ date          |-> orderToEdit.date,
                                 vehicle       |-> orderToEdit.vehicle,
                                 clientName    |-> orderToEdit.clientName,
                                 orderType     |-> orderToEdit.orderType,
                                 location      |-> orderToEdit.location,
                                 cost          |-> orderToEdit.cost,
                                 price         |-> orderToEdit.price,
                                 paymentMethod |-> orderToEdit.paymentMethod ]
                /\ orderPaid' = orderToEdit.paid
                /\ editingOrderId' = id
       ELSE UNCHANGED << newOrder, orderPaid, editingOrderId >>
    /\ lastOp' = Op("handleEditOrder", "")
    /\ UNCHANGED << pdfVars, closed, quotaExceeded, orders, expenseVars, clientVars, invoiceVars, store, now, phase >>

\* Mutant of handleDeleteOrder: the save effect of Orders does not run.
handleDeleteOrderUnsaved(id, confirmed) ==
    /\ phase = "ready"
    /\ IF confirmed
       THEN /\ orders' = SelectSeq(orders, LAMBDA order : order.id # id)
            /\ UNCHANGED store
            /\ IF editingOrderId = id
               THEN /\ editingOrderId' = null
                    /\ newOrder' = defaultNewOrderState
                    /\ orderPaid' = TRUE
               ELSE UNCHANGED << editingOrderId, newOrder, orderPaid >>
       ELSE UNCHANGED << orderVars, store >>
    /\ lastOp' = Op("handleDeleteOrder", "")
    /\ UNCHANGED << pdfVars, closed, quotaExceeded, expenseVars, clientVars, invoiceVars, now, phase >>

\* Mutant of handleDeleteOrder: deleting the order being edited does not leave edit mode.
handleDeleteOrderKeepingEdit(id, confirmed) ==
    /\ phase = "ready"
    /\ IF confirmed
       THEN /\ orders' = SelectSeq(orders, LAMBDA order : order.id # id)
            /\ saveEffect("orders", orders')
            /\ UNCHANGED << editingOrderId, newOrder, orderPaid >>
       ELSE UNCHANGED << orderVars, store, phase >>
    /\ lastOp' = Op("handleDeleteOrder", "")
    /\ UNCHANGED << pdfVars, closed, quotaExceeded, expenseVars, clientVars, invoiceVars, now >>

\* confirmed is the answer to confirm(...)
handleDeleteOrder(id, confirmed) ==
    /\ phase = "ready"
    /\ IF confirmed
       THEN /\ orders' = SelectSeq(orders, LAMBDA order : order.id # id)
            /\ saveEffect("orders", orders')
            /\ IF editingOrderId = id
               THEN /\ editingOrderId' = null
                    /\ newOrder' = defaultNewOrderState
                    /\ orderPaid' = TRUE
               ELSE UNCHANGED << editingOrderId, newOrder, orderPaid >>
       ELSE UNCHANGED << orderVars, store, phase >>
    /\ lastOp' = Op("handleDeleteOrder", "")
    /\ UNCHANGED << pdfVars, closed, quotaExceeded, expenseVars, clientVars, invoiceVars, now >>

handleCancelEditOrder ==
    /\ phase = "ready"
    /\ editingOrderId # null
    /\ editingOrderId' = null
    /\ newOrder' = defaultNewOrderState
    /\ orderPaid' = TRUE
    /\ lastOp' = Op("handleCancelEditOrder", "")
    /\ UNCHANGED << pdfVars, closed, quotaExceeded, orders, expenseVars, clientVars, invoiceVars, store, now, phase >>

----------------------------------------------------------------------------
(* Expense form and expense handlers.                                      *)

ExpenseForms ==
    { [date |-> May10,  plateNumber |-> "ABC 123", type |-> "Diesel",      cost |-> 40, description |-> "fuel"],
      [date |-> June02, plateNumber |-> "XYZ 789", type |-> "Maintenance", cost |-> 15, description |-> ""],
      [date |-> << >>,  plateNumber |-> "ABC 123", type |-> "Salary",      cost |-> 40, description |-> ""],
      [date |-> May10,  plateNumber |-> "",        type |-> "Spare Parts", cost |-> 40, description |-> ""],
      [date |-> May10,  plateNumber |-> "ABC 123", type |-> "Other",       cost |-> 0,  description |-> ""] }

\* The onChange handlers of the expense form's inputs, for one filling of the form.
FillExpenseForm(f) ==
    /\ phase = "ready"
    /\ newExpense' = f
    /\ lastOp' = Op("FillExpenseForm", "")
    /\ UNCHANGED << pdfVars, closed, quotaExceeded, expenses, editingExpenseId, orderVars, clientVars, invoiceVars,
                    store, now, phase >>

\* { ...newExpense, id: id }
ExpenseOf(draft, id) ==
    [ id          |-> id,
      date        |-> draft.date,
      plateNumber |-> draft.plateNumber,
      type        |-> draft.type,
      cost        |-> draft.cost,
      description |-> draft.description ]

\* Mutant of ExpenseDraftRefused: a cost of zero is accepted.
ExpenseDraftRefusedBelowZero(draft) ==
    draft.date = << >> \/ draft.plateNumber = "" \/ draft.cost < 0

\* The guard of handleSaveExpense: true when the draft is refused.
ExpenseDraftRefused(draft) ==
    draft.date = << >> \/ draft.plateNumber = "" \/ draft.cost <= 0

handleSaveExpense ==
    /\ phase = "ready"
    /\ IF ExpenseDraftRefused(newExpense)
       THEN /\ lastOp' = Op("handleSaveExpense",
                            "Please fill in all required expense fields (Date, Plate Number, Cost).")
            /\ UNCHANGED << expenseVars, store, phase >>
       ELSE /\ IF editingExpenseId # null
               THEN /\ expenses' = [i \in 1..Len(expenses) |->
                                      IF expenses[i].id = editingExpenseId
                                      THEN ExpenseOf(newExpense, editingExpenseId)
                                      ELSE expenses[i]]
                    /\ editingExpenseId' = null
               ELSE /\ expenses' = Append(expenses, ExpenseOf(newExpense, toString(now)))
                    /\ UNCHANGED editingExpenseId
            /\ newExpense' = defaultNewExpenseState
            /\ saveEffect("expenses", expenses')
            /\ lastOp' = Op("handleSaveExpense", "")
    /\ UNCHANGED << pdfVars, closed, quotaExceeded, orderVars, clientVars, invoiceVars, now >>

handleEditExpense(id) ==
    /\ phase = "ready"
    /\ IF \E i \in 1..Len(expenses) : expenses[i].id = id
       THEN LET expenseToEdit ==
                    expenses[CHOOSE i \in 1..Len(expenses) :
                                /\ expenses[i].id = id
                                /\ \A j \in 1..(i - 1) : expenses[j].id # id]
            IN  /\ newExpense' = [ date        |-> expenseToEdit.date,
                                   plateNumber |-> expenseToEdit.plateNumber,
                                   type        |-> expenseToEdit.type,
                                   cost        |-> expenseToEdit.cost,
                                   description |-> expenseToEdit.description ]
                /\ editingExpenseId' = id
       ELSE UNCHANGED << newExpense, editingExpenseId >>
    /\ lastOp' = Op("handleEditExpense", "")
    /\ UNCHANGED << pdfVars, closed, quotaExceeded, expenses, orderVars, clientVars, invoiceVars, store, now, phase >>

handleDeleteExpense(id, confirmed) ==
    /\ phase = "ready"
    /\ IF confirmed
       THEN /\ expenses' = SelectSeq(expenses, LAMBDA expense : expense.id # id)
            /\ saveEffect("expenses", expenses')
            /\ IF editingExpenseId = id
               THEN /\ editingExpenseId' = null
                    /\ newExpense' = defaultNewExpenseState
               ELSE UNCHANGED << editingExpenseId, newExpense >>
       ELSE UNCHANGED << expenseVars, store, phase >>
    /\ lastOp' = Op("handleDeleteExpense", "")
    /\ UNCHANGED << pdfVars, closed, quotaExceeded, orderVars, clientVars, invoiceVars, now >>

handleCancelEditExpense ==
    /\ phase = "ready"
    /\ editingExpenseId # null
    /\ editingExpenseId' = null
    /\ newExpense' = defaultNewExpenseState
    /\ lastOp' = Op("handleCancelEditExpense", "")
    /\ UNCHANGED << pdfVars, closed, quotaExceeded, expenses, orderVars, clientVars, invoiceVars, store, now, phase >>

----------------------------------------------------------------------------
(* Client handlers.                                                        *)

\* onChange of the add-client input
SetNewClientName(text) ==
    /\ phase = "ready"
    /\ newClientName' = text
    /\ lastOp' = Op("SetNewClientName", "")
    /\ UNCHANGED << pdfVars, closed, quotaExceeded, orderVars, expenseVars, clients, showAddClientInput, invoiceVars,
                    store, now, phase >>

\* Mutant of ClientNameTaken: the comparison is case-sensitive.
ClientNameTakenCaseSensitive(cs, text) ==
    \E i \in 1..Len(cs) : cs[i].name = trim(text)

\* Mutant of ClientNameTaken: the typed text is compared without trimming.
ClientNameTakenUntrimmed(cs, text) ==
    \E i \in 1..Len(cs) : toLowerCase(cs[i].name) = toLowerCase(text)

\* clients.some((c) => c.name.toLowerCase() === newClientName.trim().toLowerCase())
ClientNameTaken(cs, text) ==
    \E i \in 1..Len(cs) : toLowerCase(cs[i].name) = toLowerCase(trim(text))

\* Mutant of clientToAdd: the name is stored as typed.
clientToAddUntrimmed(text, time) == [id |-> toString(time), name |-> text]

\* const clientToAdd: Client = { id: Date.now().toString(), name: newClientName.trim() }
clientToAdd(text, time) == [id |-> toString(time), name |-> trim(text)]

\* Mutant of handleAddClient: the invoice selection is never moved to the new client.
handleAddClientKeepingSelection ==
    /\ phase = "ready"
    /\ IF trim(newClientName) = << >>
       THEN /\ lastOp' = Op("handleAddClient", "Client name cannot be empty.")
            /\ UNCHANGED << clientVars, selectedClientForInvoice, newOrder, store, phase >>
       ELSE IF ClientNameTaken(clients, newClientName)
       THEN /\ lastOp' = Op("handleAddClient", "Client with this name already exists.")
            /\ UNCHANGED << clientVars, selectedClientForInvoice, newOrder, store, phase >>
       ELSE LET added == clientToAdd(newClientName, now) IN
            /\ clients' = Append(clients, added)
            /\ UNCHANGED selectedClientForInvoice
            /\ newOrder' = [newOrder EXCEPT !.clientName = added.name]
            /\ newClientName' = << >>
            /\ showAddClientInput' = FALSE
            /\ saveEffect("clients", clients')
            /\ lastOp' = Op("handleAddClient", "")
    /\ UNCHANGED << pdfVars, closed, quotaExceeded, orders, orderPaid, editingOrderId, expenseVars,
                    selectedMonthForInvoice, now >>

handleAddClient ==
    /\ phase = "ready"
    /\ IF trim(newClientName) = << >>
       THEN /\ lastOp' = Op("handleAddClient", "Client name cannot be empty.")
            /\ UNCHANGED << clientVars, selectedClientForInvoice, newOrder, store, phase >>
       ELSE IF ClientNameTaken(clients, newClientName)
       THEN /\ lastOp' = Op("handleAddClient", "Client with this name already exists.")
            /\ UNCHANGED << clientVars, selectedClientForInvoice, newOrder, store, phase >>
       ELSE LET added == clientToAdd(newClientName, now) IN
            /\ clients' = Append(clients, added)
            /\ IF Len(clients) = 0 \/ selectedClientForInvoice = << >>
               THEN selectedClientForInvoice' = added.name
               ELSE UNCHANGED selectedClientForInvoice
            /\ newOrder' = [newOrder EXCEPT !.clientName = added.name]
            /\ newClientName' = << >>
            /\ showAddClientInput' = FALSE
            /\ saveEffect("clients", clients')
            /\ lastOp' = Op("handleAddClient", "")
    /\ UNCHANGED << pdfVars, closed, quotaExceeded, orders, orderPaid, editingOrderId, expenseVars,
                    selectedMonthForInvoice, now >>

\* Mutant of handleRemoveClient: the removed client's orders are deleted with it.
handleRemoveClientCascading(id, confirmed) ==
    /\ phase = "ready"
    /\ IF confirmed
       THEN LET updatedClients == SelectSeq(clients, LAMBDA c : c.id # id) IN
            /\ clients' = updatedClients
            /\ orders' = SelectSeq(orders, LAMBDA order :
                                order.clientName # findNameById(clients, id))
            /\ IF selectedClientForInvoice = findNameById(clients, id)
               THEN selectedClientForInvoice' = firstNameOrEmpty(updatedClients)
               ELSE UNCHANGED selectedClientForInvoice
            /\ IF newOrder.clientName = findNameById(clients, id)
               THEN newOrder' = [newOrder EXCEPT !.clientName = firstNameOrEmpty(updatedClients)]
               ELSE UNCHANGED newOrder
            /\ store' = [store EXCEPT !.clients = setItem(clients'),
                                      !.orders = setItem(orders')]
       ELSE UNCHANGED << clients, orders, selectedClientForInvoice, newOrder, store >>
    /\ lastOp' = Op("handleRemoveClient", "")
    /\ UNCHANGED << pdfVars, closed, quotaExceeded, orderPaid, editingOrderId, expenseVars, newClientName,
                    showAddClientInput, selectedMonthForInvoice, now, phase >>

handleRemoveClient(id, confirmed) ==
    /\ phase = "ready"
    /\ IF confirmed
       THEN LET updatedClients == SelectSeq(clients, LAMBDA c : c.id # id) IN
            /\ clients' = updatedClients
            /\ IF selectedClientForInvoice = findNameById(clients, id)
               THEN selectedClientForInvoice' = firstNameOrEmpty(updatedClients)
               ELSE UNCHANGED selectedClientForInvoice
            /\ IF newOrder.clientName = findNameById(clients, id)
               THEN newOrder' = [newOrder EXCEPT !.clientName = firstNameOrEmpty(updatedClients)]
               ELSE UNCHANGED newOrder
            /\ saveEffect("clients", clients')
       ELSE UNCHANGED << clients, selectedClientForInvoice, newOrder, store, phase >>
    /\ lastOp' = Op("handleRemoveClient", "")
    /\ UNCHANGED << pdfVars, closed, quotaExceeded, orders, orderPaid, editingOrderId, expenseVars, newClientName,
                    showAddClientInput, selectedMonthForInvoice, now >>

----------------------------------------------------------------------------
(* Invoice selection and the financial calculator.                         *)

\* onChange of the invoice client select
SelectInvoiceClient(name) ==
    /\ phase = "ready"
    /\ selectedClientForInvoice' = name
    /\ lastOp' = Op("SelectInvoiceClient", "")
    /\ UNCHANGED << pdfVars, closed, quotaExceeded, orderVars, expenseVars, clientVars, selectedMonthForInvoice,
                    store, now, phase >>

\* onChange of the invoice month select
SelectInvoiceMonth(month) ==
    /\ phase = "ready"
    /\ selectedMonthForInvoice' = month
    /\ lastOp' = Op("SelectInvoiceMonth", "")
    /\ UNCHANGED << pdfVars, closed, quotaExceeded, orderVars, expenseVars, clientVars, selectedClientForInvoice,
                    store, now, phase >>

\* Mutant of calculateBalance: the paid flag is ignored.
calculateBalanceIgnoringPaid(order) ==
    IF order.paymentMethod = "Postpaid" THEN order.price ELSE 0

calculateBalance(order) ==
    IF order.paymentMethod = "Postpaid" /\ ~order.paid THEN order.price ELSE 0

\* Array.prototype.reduce((sum, order) => sum + order.price, 0)
RECURSIVE reducePrice(_, _)
reducePrice(s, sum) ==
    IF s = << >> THEN sum ELSE reducePrice(Tail(s), sum + Head(s).price)

\* Mutant of IsUnpaidFor: paid orders are summed too.
IsUnpaidForIgnoringPaid(order, client, month) ==
    /\ order.clientName = client
    /\ startsWith(order.date, month)
    /\ order.paymentMethod = "Postpaid"

\* The filter predicate of totalUnpaidAmount.
IsUnpaidFor(order, client, month) ==
    /\ order.clientName = client
    /\ startsWith(order.date, month)
    /\ order.paymentMethod = "Postpaid"
    /\ ~order.paid

\* const totalUnpaidAmount, recomputed by every render
totalUnpaidAmount ==
    reducePrice(SelectSeq(orders, LAMBDA order :
                    IsUnpaidFor(order, selectedClientForInvoice, selectedMonthForInvoice)), 0)

----------------------------------------------------------------------------
(* The invoice: the hidden invoice div and generateInvoicePdf.             *)

\* Mutant of IsInvoiceLine: only what is still owed is listed.
IsInvoiceLineOwedOnly(order, client, month) ==
    /\ order.clientName = client
    /\ startsWith(order.date, month)
    /\ order.paymentMethod = "Postpaid"
    /\ ~order.paid

\* The filter predicate of the invoice table and of generateInvoicePdf.
IsInvoiceLine(order, client, month) ==
    /\ order.clientName = client
    /\ startsWith(order.date, month)

\* orders.filter(...) over the state of the current render
filteredOrders ==
    SelectSeq(orders, LAMBDA order :
        IsInvoiceLine(order, selectedClientForInvoice, selectedMonthForInvoice))

\* Mutant of invoiceRow: the balance cell shows the price.
invoiceRowBalanceIsPrice(order) ==
    [ date          |-> order.date,
      vehicle       |-> order.vehicle,
      orderType     |-> order.orderType,
      location      |-> order.location,
      price         |-> order.price,
      paymentMethod |-> order.paymentMethod,
      balance       |-> order.price ]

\* The cells of one row of the invoice table.
invoiceRow(order) ==
    [ date          |-> order.date,
      vehicle       |-> order.vehicle,
      orderType     |-> order.orderType,
      location      |-> order.location,
      price         |-> order.price,
      paymentMethod |-> order.paymentMethod,
      balance       |-> calculateBalance(order) ]

\* The rows of the invoice table: .filter(...).map(...)
invoiceRows == [i \in 1..Len(filteredOrders) |-> invoiceRow(filteredOrders[i])]

\* The values the hidden invoice div is rendered from; html2canvas copies the
\* div as it is in the document at the time of the call.
invoiceDiv(name) ==
    [ name      |-> name,
      client    |-> selectedClientForInvoice,
      month     |-> selectedMonthForInvoice,
      lineItems |-> invoiceRows,
      total     |-> totalUnpaidAmount ]

\* `${selectedClientForInvoice}_Invoice_${selectedMonthForInvoice}.pdf`
pdfFileName(client, month) == client \o << "_","I","n","v","o","i","c","e","_" >> \o month \o << ".","p","d","f" >>

\* onClick of a tab button.  The invoice div exists only while the Invoices tab
\* is rendered; a div mounted again is a new element with display 'none'.
SetActiveTab(tab) ==
    /\ phase = "ready"
    /\ activeTab' = tab
    /\ invoiceDisplay' = IF tab = "invoices" /\ activeTab = "invoices"
                         THEN invoiceDisplay
                         ELSE "none"
    /\ lastOp' = Op("SetActiveTab", "")
    /\ UNCHANGED << closed, quotaExceeded, pdfJobs, savedPdf, orderVars, expenseVars, clientVars, invoiceVars,
                    store, now, phase >>

\* Mutant of generateInvoicePdf: the check for an empty filteredOrders is left out.
generateInvoicePdfWithoutEmptyCheck ==
    /\ phase = "ready"
    /\ IF selectedClientForInvoice = << >> \/ selectedMonthForInvoice = << >>
       THEN /\ lastOp' = Op("generateInvoicePdf",
                            "Please select a client and a month to generate the invoice.")
            /\ UNCHANGED << invoiceDisplay, pdfJobs >>
       ELSE /\ invoiceDisplay' = IF activeTab = "invoices" THEN "block" ELSE invoiceDisplay
            /\ pdfJobs' = Append(pdfJobs, [ client         |-> selectedClientForInvoice,
                                            month          |-> selectedMonthForInvoice,
                                            filteredOrders |-> filteredOrders ])
            /\ lastOp' = Op("generateInvoicePdf", "")
    /\ UNCHANGED << closed, quotaExceeded, activeTab, savedPdf, orderVars, expenseVars, clientVars, invoiceVars,
                    store, now, phase >>

\* generateInvoicePdf up to its first await.  The call that goes on keeps the
\* client, the month and the filteredOrders of the render it was made in.
generateInvoicePdf ==
    /\ phase = "ready"
    /\ IF selectedClientForInvoice = << >> \/ selectedMonthForInvoice = << >>
       THEN /\ lastOp' = Op("generateInvoicePdf",
                            "Please select a client and a month to generate the invoice.")
            /\ UNCHANGED << invoiceDisplay, pdfJobs >>
       ELSE IF Len(filteredOrders) = 0
       THEN /\ lastOp' = Op("generateInvoicePdf",
                            "No orders found for the selected client and month.")
            /\ UNCHANGED << invoiceDisplay, pdfJobs >>
       ELSE /\ invoiceDisplay' = IF activeTab = "invoices" THEN "block" ELSE invoiceDisplay
            /\ pdfJobs' = Append(pdfJobs, [ client         |-> selectedClientForInvoice,
                                            month          |-> selectedMonthForInvoice,
                                            filteredOrders |-> filteredOrders ])
            /\ lastOp' = Op("generateInvoicePdf", "")
    /\ UNCHANGED << closed, quotaExceeded, activeTab, savedPdf, orderVars, expenseVars, clientVars, invoiceVars,
                    store, now, phase >>

\* A page with nothing on it: what a capture of a div with display 'none' gives.
blankPdf(name) ==
    [name |-> name, client |-> << >>, month |-> << >>, lineItems |-> << >>, total |-> 0]

\* generateInvoicePdf after its 50 ms timer, for the call whose timer fires first:
\* html2canvas copies the invoice div of the document as it is now, pdf.save
\* names the file by the client and the month of the call, and the div is hidden
\* again.  When the div is not displayed the capture is empty: addImage throws
\* or the page is blank.  Without a div nothing is captured or saved.
generateInvoicePdfAfterDelay ==
    /\ phase = "ready"
    /\ pdfJobs # << >>
    /\ LET job == Head(pdfJobs)
           name == pdfFileName(job.client, job.month)
       IN  IF activeTab = "invoices"
           THEN /\ \/ /\ invoiceDisplay = "block"
                      /\ savedPdf' = invoiceDiv(name)
                      /\ lastOp' = Op("pdf.save", "")
                   \/ /\ invoiceDisplay # "block"
                      /\ savedPdf' = blankPdf(name)
                      /\ lastOp' = Op("pdf.save", "")
                   \/ /\ invoiceDisplay # "block"
                      /\ savedPdf' = savedPdf
                      /\ lastOp' = Op("generateInvoicePdfAfterDelay", "")
                /\ invoiceDisplay' = "none"
           ELSE /\ lastOp' = Op("generateInvoicePdfAfterDelay", "")
                /\ UNCHANGED << invoiceDisplay, savedPdf >>
    /\ pdfJobs' = Tail(pdfJobs)
    /\ UNCHANGED << closed, quotaExceeded, activeTab, orderVars, expenseVars, clientVars, invoiceVars,
                    store, now, phase >>

----------------------------------------------------------------------------
(* Specifications.  The handlers of the orders, of the expenses and of the  *)
(* clients read and write disjoint parts of the state, except for the      *)
(* draft's clientName and the invoice selection; each part is explored by  *)
(* a specification of its own, and Spec explores orders and clients        *)
(* together with a smaller set of inputs.                                  *)

Startup == LoadEffect \/ SaveEffectsOnMount \/ SaveEffectsOnLoaded

ClockRuns == now < StartTime + MaxTicks

OrderIds == { orders[i].id : i \in 1..Len(orders) }
ExpenseIds == { expenses[i].id : i \in 1..Len(expenses) }
ClientIds == { clients[i].id : i \in 1..Len(clients) }

\* A save that appends is explored only below the length bound.
SaveOrderWithin(bound) ==
    /\ (OrderDraftRefused(newOrder) \/ editingOrderId # null \/ Len(orders) < bound)
    /\ handleSaveOrder

\* Inputs of the combined specification.
LedgerOrderForms ==
    { OrderForm(May10, "Truck A", "Delivery", "City Center", 60, 100, "Postpaid", FALSE),
      OrderForm(May10, "",        "Delivery", "City Center", 60, 100, "Postpaid", FALSE) }
LedgerClientNameInputs == { << " ","a","c","m","e"," " >> }

Next ==
    \/ Startup
    \/ Restart
    \/ \E f \in LedgerOrderForms : FillOrderForm(f)
    \/ SaveOrderWithin(MaxLedgerOrders)
    \/ \E text \in LedgerClientNameInputs : SetNewClientName(text)
    \/ handleAddClient
    \/ \E id \in ClientIds, confirmed \in BOOLEAN : handleRemoveClient(id, confirmed)

Spec == Init /\ [][Next]_vars

\* The options of the client select the order specs pick from.
OrderClientChoices ==
    { v \in OrderClientOptions :
        \/ v = << "add_new" >>
        \/ v = << >>
        \/ \E i \in 1..Len(clients) : i <= MaxClientChoices /\ clients[i].name = v }

NextOrders ==
    \/ Startup
    \/ Restart
    \/ (ClockRuns /\ Tick)
    \/ \E f \in OrderForms : FillOrderForm(f)
    \/ \E v \in OrderClientChoices : SelectOrderClient(v)
    \/ SaveOrderWithin(MaxOrders)
    \/ \E id \in OrderIds : handleEditOrder(id)
    \/ \E id \in OrderIds, confirmed \in BOOLEAN : handleDeleteOrder(id, confirmed)
    \/ handleCancelEditOrder

SpecOrders == Init /\ [][NextOrders]_vars

NextExpenses ==
    \/ Startup
    \/ Restart
    \/ (ClockRuns /\ Tick)
    \/ \E f \in ExpenseForms : FillExpenseForm(f)
    \/ ( /\ (ExpenseDraftRefused(newExpense) \/ editingExpenseId # null
                \/ Len(expenses) < MaxExpenses)
         /\ handleSaveExpense )
    \/ \E id \in ExpenseIds : handleEditExpense(id)
    \/ \E id \in ExpenseIds, confirmed \in BOOLEAN : handleDeleteExpense(id, confirmed)
    \/ handleCancelEditExpense

SpecExpenses == Init /\ [][NextExpenses]_vars

NextClients ==
    \/ Startup
    \/ Restart
    \/ (ClockRuns /\ Tick)
    \/ \E text \in ClientNameInputs : SetNewClientName(text)
    \/ ( /\ (Len(clients) < MaxClients \/ trim(newClientName) = << >>
                \/ ClientNameTaken(clients, newClientName))
         /\ handleAddClient )
    \/ \E id \in ClientIds, confirmed \in BOOLEAN : handleRemoveClient(id, confirmed)

SpecClients == Init /\ [][NextClients]_vars

----------------------------------------------------------------------------
(* The financial calculator as a function of its inputs: the Orders        *)
(* collection is drawn from the sequences over a set of stored orders, and *)
(* the invoice selects pick the client and the month.                      *)

\* Order records as handleSaveOrder stores them (price > 0, required fields set).
CalcOrderSamples ==
    { [clientName |-> << "H","a","s","s","a","n"," ","B","o","b","o" >>,  date |-> May10,  price |-> 100, paymentMethod |-> "Postpaid", paid |-> FALSE],
      [clientName |-> << "H","a","s","s","a","n"," ","B","o","b","o" >>,  date |-> << "2","0","2","4","-","0","5","-","2","0" >>, price |-> 50, paymentMethod |-> "Cash", paid |-> TRUE],
      [clientName |-> << "H","a","s","s","a","n"," ","B","o","b","o" >>,  date |-> June02, price |-> 70,  paymentMethod |-> "Postpaid", paid |-> FALSE],
      [clientName |-> << "O","m","a","r"," ","S","h","a","r","e","i","f" >>, date |-> May10,  price |-> 30,  paymentMethod |-> "Postpaid", paid |-> FALSE],
      [clientName |-> << "H","a","s","s","a","n"," ","B","o","b","o" >>,  date |-> May10,  price |-> 20,  paymentMethod |-> "Postpaid", paid |-> TRUE],
      [clientName |-> << "H","a","s","s","a","n"," ","B","o","b","o" >>,  date |-> May10,  price |-> 10,  paymentMethod |-> "Cash",     paid |-> FALSE] }

CalcOrder(sample, i) ==
    [ id            |-> toString(StartTime + i),
      date          |-> sample.date,
      vehicle       |-> "Truck A",
      clientName    |-> sample.clientName,
      orderType     |-> "Delivery",
      location      |-> "City Center",
      cost          |-> 0,
      price         |-> sample.price,
      paymentMethod |-> sample.paymentMethod,
      paid          |-> sample.paid ]

CalcOrderSeqs ==
    UNION { { [i \in 1..n |-> CalcOrder(samples[i], i)] :
                samples \in [1..n -> CalcOrderSamples] } : n \in 0..MaxCalcOrders }

InitCalc ==
    /\ orders \in CalcOrderSeqs
    /\ expenses = << >>
    /\ clients = predefinedClients
    /\ newOrder = defaultNewOrderState
    /\ orderPaid = TRUE
    /\ editingOrderId = null
    /\ newExpense = defaultNewExpenseState
    /\ editingExpenseId = null
    /\ newClientName = << >>
    /\ showAddClientInput = FALSE
    /\ selectedClientForInvoice = predefinedClients[1].name
    /\ selectedMonthForInvoice = SubSeq(Today, 1, 7)
    /\ activeTab = "orders"
    /\ invoiceDisplay = "none"
    /\ pdfJobs = << >>
    /\ savedPdf = noPdf
    /\ store = [orders   |-> setItem(orders),
                expenses |-> setItem(expenses),
                clients  |-> setItem(clients)]
    /\ now = StartTime + MaxCalcOrders
    /\ phase = "ready"
    /\ closed = notClosed
    /\ quotaExceeded = FALSE
    /\ lastOp = Op("SaveEffectsOnLoaded", "")

NextCalc ==
    \/ \E i \in 1..Len(clients) : SelectInvoiceClient(clients[i].name)
    \/ \E month \in Months : SelectInvoiceMonth(month)

SpecCalc == InitCalc /\ [][NextCalc]_vars

----------------------------------------------------------------------------
(* Invoice specification: Orders is loaded from the store as for the        *)
(* calculator; the user moves between the Orders and the Invoices tab,      *)
(* picks the client and the month, generates invoices and deletes orders,  *)
(* while calls of generateInvoicePdf wait for their timer.                  *)

\* Longest Orders collection and number of calls of generateInvoicePdf waiting
\* at one time in the invoice specification.
MaxInvoiceOrders == 2
MaxPdfJobs == 1

InvoiceTabs == { "orders", "invoices" }

\* The stored orders of the invoice specification: a Postpaid order of June and
\* a Cash order of May of the first client, a Postpaid order of May of the second.
InvoiceOrderSamples == { sample \in CalcOrderSamples : sample.price \in { 70, 50, 30 } }

\* The invoice client select is set to the clients that may have stored orders.
InvoiceClientChoices == { sample.clientName : sample \in InvoiceOrderSamples }

InitInvoice ==
    /\ InitCalc
    /\ Len(orders) <= MaxInvoiceOrders
    /\ \A i \in 1..Len(orders) :
          \E sample \in InvoiceOrderSamples : orders[i] = CalcOrder(sample, i)

NextInvoice ==
    \/ \E tab \in InvoiceTabs : SetActiveTab(tab)
    \/ /\ activeTab = "invoices"
       /\ \E i \in 1..Len(clients) :
             /\ clients[i].name \in InvoiceClientChoices
             /\ SelectInvoiceClient(clients[i].name)
    \/ /\ activeTab = "invoices"
       /\ \E month \in Months : SelectInvoiceMonth(month)
    \/ /\ activeTab = "invoices"
       /\ selectedClientForInvoice # << >>
       /\ Len(pdfJobs) < MaxPdfJobs
       /\ generateInvoicePdf
    \/ generateInvoicePdfAfterDelay
    \/ /\ activeTab = "orders"
       /\ \E id \in OrderIds : handleDeleteOrder(id, TRUE)

SpecInvoice == InitInvoice /\ [][NextInvoice]_vars

----------------------------------------------------------------------------
(* Selection specification: the app is opened on a store that holds the     *)
(* first MaxStoredClients predefined clients; clients are added and        *)
(* removed while the invoice client and the draft's client are picked in   *)
(* their selects.                                                           *)

\* Number of predefined clients in the stored client list.
MaxStoredClients == 2

SelectionNameInputs == { << " ","a","c","m","e"," " >>, << "Z","e","d" >> }

InitSelection ==
    /\ InitialState
    /\ store = [orders   |-> setItem(<< >>),
                expenses |-> setItem(<< >>),
                clients  |-> setItem(SubSeq(predefinedClients, 1, MaxStoredClients))]
    /\ now = StartTime
    /\ phase = "mount"
    /\ closed = notClosed
    /\ quotaExceeded = FALSE
    /\ lastOp = Op("construct", "")

NextSelection ==
    \/ Startup
    \/ (ClockRuns /\ Tick)
    \/ \E text \in SelectionNameInputs : SetNewClientName(text)
    \/ handleAddClient
    \/ \E id \in ClientIds, confirmed \in BOOLEAN : handleRemoveClient(id, confirmed)
    \/ \E i \in 1..Len(clients) : SelectInvoiceClient(clients[i].name)
    \/ \E v \in OrderClientOptions : SelectOrderClient(v)

SpecSelection == InitSelection /\ [][NextSelection]_vars

----------------------------------------------------------------------------
(* Store specification: the app is opened on an empty localStorage; orders, *)
(* expenses and clients are saved and deleted, and the page is closed and  *)
(* opened again.                                                            *)

\* Longest Orders and Expenses collection the store specification builds, and
\* the number of clients, counted from the top of the list, it removes.
MaxStoreOrders == 1
MaxStoreExpenses == 1
MaxStoreRemovals == 1

StoreOrderForms ==
    { OrderForm(May10, "Truck A", "Delivery", "City Center", 60, 100, "Postpaid", FALSE) }
StoreExpenseForms ==
    { [date |-> May10, plateNumber |-> "ABC 123", type |-> "Diesel", cost |-> 40, description |-> "fuel"] }
StoreClientNameInputs == { << " ","a","c","m","e"," " >> }

NextStore ==
    \/ Startup
    \/ Restart
    \/ \E f \in StoreOrderForms : FillOrderForm(f)
    \/ SaveOrderWithin(MaxStoreOrders)
    \/ \E id \in OrderIds : handleDeleteOrder(id, TRUE)
    \/ \E f \in StoreExpenseForms : FillExpenseForm(f)
    \/ ( /\ (ExpenseDraftRefused(newExpense) \/ editingExpenseId # null
                \/ Len(expenses) < MaxStoreExpenses)
         /\ handleSaveExpense )
    \/ \E id \in ExpenseIds : handleDeleteExpense(id, TRUE)
    \/ \E text \in StoreClientNameInputs : SetNewClientName(text)
    \/ handleAddClient
    \/ \E i \in 1..Len(clients) :
          /\ i <= MaxStoreRemovals
          /\ handleRemoveClient(clients[i].id, TRUE)

SpecStore == Init /\ [][NextStore]_vars

----------------------------------------------------------------------------
(* Cost specification: orders are saved, edited and deleted with drafts    *)
(* whose cost input holds a negative number, zero or a positive number.    *)

\* What parseFloat(e.target.value) || 0 gives for the texts typed into the cost input.
OrderCosts == { -5, 0, 60 }

CostOrderForms ==
    { OrderForm(May10, "Truck A", "Delivery", "City Center", c, 100, "Postpaid", FALSE) :
        c \in OrderCosts }

NextCosts ==
    \/ Startup
    \/ Restart
    \/ (ClockRuns /\ Tick)
    \/ \E f \in CostOrderForms : FillOrderForm(f)
    \/ SaveOrderWithin(MaxOrders)
    \/ \E id \in OrderIds : handleEditOrder(id)
    \/ \E id \in OrderIds : handleDeleteOrder(id, TRUE)
    \/ handleCancelEditOrder

SpecCosts == Init /\ [][NextCosts]_vars

----------------------------------------------------------------------------
(* Quota specification: orders are saved and deleted while localStorage    *)
(* runs out of room and is given room again.                               *)

\* The origin's storage quota is used up: from now on setItem throws.
QuotaRunsOut ==
    /\ phase = "ready"
    /\ ~quotaExceeded
    /\ quotaExceeded' = TRUE
    /\ lastOp' = Op("QuotaRunsOut", "")
    /\ UNCHANGED << pdfVars, closed, orderVars, expenseVars, clientVars, invoiceVars,
                    store, now, phase >>

\* Room is made in the origin's storage: setItem succeeds again.
QuotaFreed ==
    /\ phase \in {"ready", "crashed"}
    /\ quotaExceeded
    /\ quotaExceeded' = FALSE
    /\ lastOp' = Op("QuotaFreed", "")
    /\ UNCHANGED << pdfVars, closed, orderVars, expenseVars, clientVars, invoiceVars,
                    store, now, phase >>

NextQuota ==
    \/ Startup
    \/ Restart
    \/ (ClockRuns /\ Tick)
    \/ QuotaRunsOut
    \/ QuotaFreed
    \/ \E f \in StoreOrderForms : FillOrderForm(f)
    \/ SaveOrderWithin(MaxOrders)
    \/ \E id \in OrderIds : handleDeleteOrder(id, TRUE)

SpecQuota == Init /\ [][NextQuota]_vars

----------------------------------------------------------------------------
(* Properties.                                                             *)

\* A step of the named handler (lastOp names the handler that produced the state).
Ran(name) == lastOp'.op = name
RanOk(name) == lastOp'.op = name /\ lastOp'.alert = ""

ClientNames == { clients[i].name : i \in 1..Len(clients) }

\* a and b are the same text up to the case of their letters
SameIgnoringCase(a, b) ==
    /\ Len(a) = Len(b)
    /\ \A k \in 1..Len(a) :
          \/ a[k] = b[k]
          \/ \E n \in 1..26 : {a[k], b[k]} = {UpperCase[n], LowerCase[n]}

\* t is s without its leading and trailing whitespace
IsTrimOf(t, s) ==
    \E lo \in 1..(Len(s) + 1), hi \in 0..Len(s) :
        /\ t = SubSeq(s, lo, hi)
        /\ \A k \in 1..(lo - 1) : s[k] \in WhiteSpace
        /\ \A k \in (hi + 1)..Len(s) : s[k] \in WhiteSpace
        /\ t = << >> \/ (t[1] \notin WhiteSpace /\ t[Len(t)] \notin WhiteSpace)

\* C1: a save (add mode or edit mode) whose draft has price <= 0 or an empty
\* date, clientName or vehicle raises the validation alert and leaves the Orders
\* collection exactly as it was.
C1_RefusedSaveKeepsOrders ==
    [][ ( /\ Ran("handleSaveOrder")
          /\ \/ newOrder.price <= 0
             \/ newOrder.date = << >>
             \/ newOrder.clientName = << >>
             \/ newOrder.vehicle = "" )
        => ( /\ orders' = orders
             /\ lastOp'.alert # "" ) ]_vars

\* C1 witness: a save in edit mode was refused while two orders are stored.
C1_Witness ==
    /\ lastOp.op = "handleSaveOrder"
    /\ lastOp.alert # ""
    /\ editingOrderId # null
    /\ Len(orders) = 2
    /\ newOrder.price <= 0

\* C2: a client addition or removal leaves the Orders collection exactly as it
\* was (same records, same field values, same sequence), also the orders whose
\* clientName is the removed client's name.
C2_ClientMutationsKeepOrders ==
    [][ (Ran("handleAddClient") \/ Ran("handleRemoveClient")) => orders' = orders ]_vars

\* C2 witness: a client was removed and two orders are stored, one of them of a
\* client that is no longer in the Clients collection.
C2_Witness ==
    /\ lastOp.op = "handleRemoveClient"
    /\ Len(orders) = 2
    /\ Len(clients) < Len(predefinedClients)
    /\ \E i \in 1..Len(orders) : orders[i].clientName \notin ClientNames

\* C3: a successful save in edit mode of the order with id X replaces that
\* order's fields by the draft's, keeps its id and index and the length of the
\* sequence, and leaves every other order unchanged.
C3_EditReplacesOneInPlace ==
    [][ (RanOk("handleSaveOrder") /\ editingOrderId # null)
        => ( /\ Len(orders') = Len(orders)
             /\ \E i \in 1..Len(orders) :
                   /\ orders[i].id = editingOrderId
                   /\ orders'[i] = OrderOf(newOrder, editingOrderId, orderPaid)
                   /\ \A j \in 1..Len(orders) : j # i => orders'[j] = orders[j] ) ]_vars

\* C4: the ids of the records of a collection are pairwise distinct, in Orders,
\* in Expenses and in Clients.
C4_IdsDistinct ==
    /\ \A i, j \in 1..Len(orders) : i # j => orders[i].id # orders[j].id
    /\ \A i, j \in 1..Len(expenses) : i # j => expenses[i].id # expenses[j].id
    /\ \A i, j \in 1..Len(clients) : i # j => clients[i].id # clients[j].id

\* C5: the clientName stored by a successful save in add mode is the name of a
\* client that is in the Clients collection at that moment.
C5_NewOrderNamesAClient ==
    [][ (RanOk("handleSaveOrder") /\ editingOrderId = null)
        => orders'[Len(orders')].clientName \in ClientNames ]_vars

\* C6: no two clients have names that are equal up to letter case.
C6_ClientNamesUnique ==
    \A i, j \in 1..Len(clients) :
        i # j => ~SameIgnoringCase(clients[i].name, clients[j].name)

\* C6 witness: clients were removed and added, and two added clients are present.
C6_Witness ==
    /\ lastOp = Op("handleAddClient", "")
    /\ Cardinality({ i \in 1..Len(clients) :
                       \A k \in 1..Len(predefinedClients) :
                           clients[i].id # predefinedClients[k].id }) >= 2

\* C7: addClient with a text that after trimming equals an existing client's name
\* up to letter case is refused with the duplicate alert and leaves the Clients
\* collection unchanged.
C7_DuplicateNameRefused ==
    [][ ( /\ Ran("handleAddClient")
          /\ \E t \in { SubSeq(newClientName, lo, hi) :
                          lo \in 1..(Len(newClientName) + 1), hi \in 0..Len(newClientName) } :
                /\ IsTrimOf(t, newClientName)
                /\ t # << >>
                /\ \E i \in 1..Len(clients) : SameIgnoringCase(clients[i].name, t) )
        => ( /\ clients' = clients
             /\ lastOp'.alert = "Client with this name already exists." ) ]_vars

\* C7 witness: a text with surrounding whitespace and other letter case than the
\* existing client's name was refused.
C7_Witness ==
    /\ lastOp = Op("handleAddClient", "Client with this name already exists.")
    /\ newClientName # trim(newClientName)
    /\ trim(newClientName) \notin ClientNames

\* C8: addClient with a text that is empty after trimming is refused and leaves
\* the Clients collection unchanged; a successful addClient appends exactly one
\* client, after all existing ones, whose name is the trimmed text.
C8_AddClientAppendsTrimmed ==
    [][ /\ ( Ran("handleAddClient") /\ (\A k \in 1..Len(newClientName) : newClientName[k] \in WhiteSpace) )
           => ( /\ clients' = clients
                /\ lastOp'.alert = "Client name cannot be empty." )
        /\ RanOk("handleAddClient")
           => ( /\ Len(clients') = Len(clients) + 1
                /\ SubSeq(clients', 1, Len(clients)) = clients
                /\ IsTrimOf(clients'[Len(clients')].name, newClientName)
                /\ clients'[Len(clients')].name # << >> ) ]_vars

\* C8 witness: a text typed with surrounding whitespace was added, trimmed, after
\* the existing clients.
C8_Witness ==
    /\ lastOp = Op("handleAddClient", "")
    /\ Len(clients) >= 2
    /\ clients[Len(clients)].name = << "a","c","m","e" >>

\* C9: the balance of an order is its price exactly when the order is Postpaid
\* and unpaid, and 0 in every other case (Cash, or Postpaid and paid).
C9_BalanceByPaymentAndPaid ==
    \A i \in 1..Len(orders) :
        LET order == orders[i]
            expected == CASE order.paymentMethod = "Postpaid" /\ order.paid = FALSE -> order.price
                          [] order.paymentMethod = "Postpaid" /\ order.paid = TRUE  -> 0
                          [] order.paymentMethod = "Cash"     /\ order.paid = FALSE -> 0
                          [] order.paymentMethod = "Cash"     /\ order.paid = TRUE  -> 0
        IN  /\ calculateBalance(order) = expected
            /\ (calculateBalance(order) = order.price)
                   <=> (order.paymentMethod = "Postpaid" /\ ~order.paid)

\* C9 witness: the invoice of May is shown and its line items are a Postpaid
\* unpaid, a Postpaid paid and a Cash unpaid order.
C9_Witness ==
    /\ lastOp.op = "SelectInvoiceMonth"
    /\ selectedMonthForInvoice = May
    /\ \A i \in 1..Len(orders) :
          /\ orders[i].clientName = selectedClientForInvoice
          /\ startsWith(orders[i].date, selectedMonthForInvoice)
    /\ \E i \in 1..Len(orders) : orders[i].paymentMethod = "Postpaid" /\ ~orders[i].paid
    /\ \E i \in 1..Len(orders) : orders[i].paymentMethod = "Postpaid" /\ orders[i].paid
    /\ \E i \in 1..Len(orders) : orders[i].paymentMethod = "Cash" /\ ~orders[i].paid

\* Sum of the prices of the orders at the indices in S.
RECURSIVE PriceSum(_)
PriceSum(S) ==
    IF S = {} THEN 0
    ELSE LET i == CHOOSE x \in S : TRUE IN orders[i].price + PriceSum(S \ {i})

\* Indices of the orders of the selected client, dated in the selected month,
\* Postpaid and unpaid.
UnpaidMatches ==
    { i \in 1..Len(orders) :
        /\ orders[i].clientName = selectedClientForInvoice
        /\ Len(orders[i].date) >= Len(selectedMonthForInvoice)
        /\ \A k \in 1..Len(selectedMonthForInvoice) :
              orders[i].date[k] = selectedMonthForInvoice[k]
        /\ orders[i].paymentMethod = "Postpaid"
        /\ orders[i].paid = FALSE }

\* C10: the unpaid total is the sum of price over exactly the orders of the
\* selected client whose date starts with the selected month and that are
\* Postpaid and unpaid; it is 0 when no order matches.
C10_UnpaidTotalIsSumOfMatches ==
    /\ totalUnpaidAmount = PriceSum(UnpaidMatches)
    /\ UnpaidMatches = {} => totalUnpaidAmount = 0

\* C10 witness: two orders match and a third, stored between them, does not.
C10_Witness ==
    /\ Len(orders) = 3
    /\ UnpaidMatches = {1, 3}
    /\ totalUnpaidAmount = 200

\* The positions of Orders whose order names the selected client and whose date
\* begins with the selected month, character by character.
InvoiceLinePositions ==
    { i \in 1..Len(orders) :
        /\ orders[i].clientName = selectedClientForInvoice
        /\ Len(orders[i].date) >= Len(selectedMonthForInvoice)
        /\ \A k \in 1..Len(selectedMonthForInvoice) :
              orders[i].date[k] = selectedMonthForInvoice[k] }

\* The n-th smallest member of a set of positions.
NthPosition(S, n) == CHOOSE i \in S : Cardinality({ j \in S : j <= i }) = n

\* C11: the line items of the invoice are exactly the orders of the selected
\* client whose date has the selected month as prefix, Cash and paid orders
\* included, in the order in which they stand in Orders.
C11_LineItemsAreMatchingOrders ==
    /\ Len(filteredOrders) = Cardinality(InvoiceLinePositions)
    /\ Len(invoiceRows) = Cardinality(InvoiceLinePositions)
    /\ \A n \in 1..Cardinality(InvoiceLinePositions) :
          LET order == orders[NthPosition(InvoiceLinePositions, n)] IN
          /\ filteredOrders[n] = order
          /\ invoiceRows[n].date = order.date
          /\ invoiceRows[n].price = order.price
          /\ invoiceRows[n].paymentMethod = order.paymentMethod

\* C11 witness: the invoice of May is shown; of three orders the first and the
\* third are its line items, a Cash order dated after the paid order behind it,
\* and the order between them is left out.
C11_Witness ==
    /\ lastOp.op = "SelectInvoiceMonth"
    /\ selectedMonthForInvoice = May
    /\ Len(orders) = 3
    /\ InvoiceLinePositions = {1, 3}
    /\ Len(filteredOrders) = 2
    /\ filteredOrders[1].paymentMethod = "Cash"
    /\ filteredOrders[1].date = << "2","0","2","4","-","0","5","-","2","0" >>
    /\ filteredOrders[2].paid
    /\ filteredOrders[2].date = May10

\* C12: a call of generateInvoicePdf with no client selected, no month selected
\* or no order of the selected client in the selected month raises an alert,
\* starts no rendering and writes no file; otherwise it starts one rendering;
\* and a file is written only by a call that found at least one such order.
C12_NoDataNoDocument ==
    [][ /\ Ran("generateInvoicePdf") =>
              IF \/ selectedClientForInvoice = << >>
                 \/ selectedMonthForInvoice = << >>
                 \/ InvoiceLinePositions = {}
              THEN /\ lastOp'.alert # ""
                   /\ pdfJobs' = pdfJobs
                   /\ savedPdf' = savedPdf
              ELSE /\ lastOp'.alert = ""
                   /\ Len(pdfJobs') = Len(pdfJobs) + 1
                   /\ savedPdf' = savedPdf
        /\ (Ran("pdf.save") \/ savedPdf' # savedPdf) =>
              /\ pdfJobs # << >>
              /\ Head(pdfJobs).filteredOrders # << >>
              /\ pdfJobs' = Tail(pdfJobs)
        /\ \A n \in 1..Len(pdfJobs') : pdfJobs'[n].filteredOrders # << >>
      ]_vars

\* C12 witness: generateInvoicePdf has just been refused for want of orders:
\* Orders holds two orders, none of the selected client in the selected month,
\* and no file has been written.
C12_Witness ==
    /\ lastOp = Op("generateInvoicePdf", "No orders found for the selected client and month.")
    /\ Len(orders) = 2
    /\ InvoiceLinePositions = {}
    /\ selectedClientForInvoice # << >>
    /\ pdfJobs = << >>
    /\ savedPdf = noPdf

\* C13: the file that pdf.save writes holds the invoice of the call that wrote
\* it: the client, the month and the line items as they were when
\* generateInvoicePdf was called, under the name made of that client and month.
C13_DocumentIsInvoiceAtInvocation ==
    [][ Ran("pdf.save") =>
            LET job == Head(pdfJobs) IN
            /\ savedPdf'.name = pdfFileName(job.client, job.month)
            /\ savedPdf'.client = job.client
            /\ savedPdf'.month = job.month
            /\ savedPdf'.lineItems =
                   [i \in 1..Len(job.filteredOrders) |-> invoiceRow(job.filteredOrders[i])]
      ]_vars

\* The names of the clients that are in Clients before the step and not after it.
RemovedClientNames ==
    { clients[i].name : i \in { j \in 1..Len(clients) :
                                   \A k \in 1..Len(clients') : clients'[k] # clients[j] } }

\* The name of the first client left after the step, '' when none is left.
FirstRemainingName == IF clients' = << >> THEN << >> ELSE clients'[1].name

\* C14: when a client is removed and its name is the invoice selection, the
\* selection becomes the name of the first remaining client, '' when none
\* remains; when the removed name is not the selection, the selection stays.
C14_RemoveClientResetsSelection ==
    [][ (Ran("handleRemoveClient") /\ clients' # clients) =>
            IF selectedClientForInvoice \in RemovedClientNames
            THEN selectedClientForInvoice' = FirstRemainingName
            ELSE selectedClientForInvoice' = selectedClientForInvoice
      ]_vars

\* C15: when a client is removed and its name is the draft's clientName, the
\* draft's clientName becomes the name of the first remaining client, '' when
\* none remains, and the draft's other fields stay; when the removed name is not
\* the draft's clientName, the draft stays.
C15_RemoveClientResetsDraftClient ==
    [][ (Ran("handleRemoveClient") /\ clients' # clients) =>
            IF newOrder.clientName \in RemovedClientNames
            THEN newOrder' = [newOrder EXCEPT !.clientName = FirstRemainingName]
            ELSE newOrder' = newOrder
      ]_vars

\* C16: a successful addClient moves the invoice selection to the new client's
\* name when the selection was '' or Clients was empty before the add, and
\* leaves it otherwise; the draft's clientName becomes the new client's name.
C16_AddClientSelectsNewClient ==
    [][ (RanOk("handleAddClient") /\ Len(clients') = Len(clients) + 1) =>
            LET added == clients'[Len(clients')] IN
            /\ selectedClientForInvoice' =
                   IF selectedClientForInvoice = << >> \/ Len(clients) = 0
                   THEN added.name
                   ELSE selectedClientForInvoice
            /\ newOrder' = [newOrder EXCEPT !.clientName = added.name]
      ]_vars

\* C16 witness: every client was removed, which left the selection '', and the
\* client 'acme' has just been added: it is the selection and the draft's client.
C16_Witness ==
    /\ lastOp = Op("handleAddClient", "")
    /\ Len(clients) = 1
    /\ clients[1].name = << "a","c","m","e" >>
    /\ selectedClientForInvoice = << "a","c","m","e" >>
    /\ newOrder.clientName = << "a","c","m","e" >>

\* The localStorage item holds the JSON text of the collection: one member set
\* per record, in the collection's order, with each field's key and value.
StoredIs(item, coll) ==
    /\ item.present
    /\ Len(item.text) = Len(coll)
    /\ \A i \in 1..Len(coll) :
          item.text[i] = { << k, coll[i][k] >> : k \in DOMAIN coll[i] }

\* C17: after a handler has changed Orders, Expenses or Clients (a save or a
\* delete of an order or an expense, an add or a remove of a client), the
\* collection has been written to the store and the stored value is the
\* collection in memory.
C17_MutationIsPersisted ==
    [][ /\ ((Ran("handleSaveOrder") \/ Ran("handleDeleteOrder")) /\ orders' # orders)
              => StoredIs(store'.orders, orders')
        /\ ((Ran("handleSaveExpense") \/ Ran("handleDeleteExpense")) /\ expenses' # expenses)
              => StoredIs(store'.expenses, expenses')
        /\ ((Ran("handleAddClient") \/ Ran("handleRemoveClient")) /\ clients' # clients)
              => StoredIs(store'.clients, clients')
      ]_vars

\* C17 witness: the only order has just been deleted: the store holds the empty
\* Orders, one expense and the clients with 'acme' added.
C17_Witness ==
    /\ lastOp.op = "handleDeleteOrder"
    /\ orders = << >>
    /\ store.orders = [present |-> TRUE, text |-> << >>]
    /\ Len(expenses) = 1
    /\ Len(store.expenses.text) = 1
    /\ Len(clients) = 6
    /\ Len(store.clients.text) = 6

\* C18: when the page is closed and opened again, the collections the reopened
\* page has rendered are the collections that were in memory when it was
\* closed: the same records with the same field values in the same order.
C18_RestartReproducesCollections ==
    [][ (Ran("SaveEffectsOnLoaded") /\ ~closed.open) =>
            /\ orders' = closed.orders
            /\ expenses' = closed.expenses
            /\ clients' = closed.clients
      ]_vars

\* C18 witness: the reopened page has rendered one order, one expense and a
\* client list from which the first predefined client was removed and to which
\* 'acme' was added.
C18_Witness ==
    /\ lastOp.op = "SaveEffectsOnLoaded"
    /\ phase = "ready"
    /\ Len(orders) = 1
    /\ Len(expenses) = 1
    /\ Len(clients) = 5
    /\ clients[1].name # predefinedClients[1].name
    /\ clients[5].name = << "a","c","m","e" >>

\* C19: the load effect sets each collection that has an item in the store to
\* exactly the stored sequence, an empty stored client list included, and leaves
\* a collection without an item at its initial value: the predefined clients for
\* Clients, the empty list for Orders and Expenses.
C19_StartupLoadsStoredOrSeed ==
    [][ Ran("LoadEffect") =>
            /\ IF store.orders.present
               THEN store.orders.text = JSONstringify(orders')
               ELSE orders' = << >>
            /\ IF store.expenses.present
               THEN store.expenses.text = JSONstringify(expenses')
               ELSE expenses' = << >>
            /\ IF store.clients.present
               THEN store.clients.text = JSONstringify(clients')
               ELSE clients' = predefinedClients
      ]_vars

\* C19 witness: the page was closed with one order and with every client
\* removed; the load effect has run and Clients is the stored empty list.
C19_Witness ==
    /\ lastOp.op = "LoadEffect"
    /\ store.clients = [present |-> TRUE, text |-> << >>]
    /\ clients = << >>
    /\ Len(orders) = 1

\* The expense holds the fields of the draft.
HoldsDraft(expense, draft) ==
    /\ expense.date = draft.date
    /\ expense.plateNumber = draft.plateNumber
    /\ expense.type = draft.type
    /\ expense.cost = draft.cost
    /\ expense.description = draft.description

\* C20: a save of an expense draft with an empty date, an empty plateNumber or
\* a cost <= 0 is refused with an alert and leaves Expenses as it is; a
\* successful save in edit mode puts the draft in the place of the expense with
\* the edited id, which keeps its id and its index, and the length of Expenses
\* stays; a successful save in add mode appends one expense holding the draft.
C20_ExpenseSaveRefusesReplacesOrAppends ==
    [][ Ran("handleSaveExpense") =>
            IF newExpense.date = << >> \/ newExpense.plateNumber = "" \/ newExpense.cost <= 0
            THEN /\ expenses' = expenses
                 /\ lastOp'.alert # ""
            ELSE IF editingExpenseId # null
            THEN /\ lastOp'.alert = ""
                 /\ Len(expenses') = Len(expenses)
                 /\ \E i \in 1..Len(expenses) : expenses[i].id = editingExpenseId
                 /\ \A i \in 1..Len(expenses) :
                       IF expenses[i].id = editingExpenseId
                       THEN /\ expenses'[i].id = expenses[i].id
                            /\ HoldsDraft(expenses'[i], newExpense)
                       ELSE expenses'[i] = expenses[i]
            ELSE /\ lastOp'.alert = ""
                 /\ Len(expenses') = Len(expenses) + 1
                 /\ SubSeq(expenses', 1, Len(expenses)) = expenses
                 /\ HoldsDraft(expenses'[Len(expenses')], newExpense)
      ]_vars

\* C20 witness: an expense created at StartTime has just been saved in edit mode
\* after the clock advanced: it is still the only expense, with its id, and it
\* holds the fields of the second form.
C20_Witness ==
    /\ lastOp = Op("handleSaveExpense", "")
    /\ now = StartTime + 1
    /\ Len(expenses) = 1
    /\ expenses[1].id = toString(StartTime)
    /\ expenses[1].date = June02
    /\ expenses[1].plateNumber = "XYZ 789"
    /\ editingExpenseId = null

\* C21: every order in Orders has a cost >= 0.
C21_StoredCostNotNegative ==
    \A i \in 1..Len(orders) : orders[i].cost >= 0

\* Sum of the balance cells of a sequence of invoice rows.
RECURSIVE BalanceSum(_)
BalanceSum(rows) ==
    IF rows = << >> THEN 0 ELSE Head(rows).balance + BalanceSum(Tail(rows))

\* C23: the total unpaid amount of the invoice is the sum of the balances of
\* the invoice's line items, for every Orders collection, client and month.
C23_TotalIsSumOfLineBalances ==
    totalUnpaidAmount = BalanceSum(invoiceRows)

\* C23 witness: the client select has just been set; the invoice has three line
\* items, of which one is owed, one is Postpaid and paid and one is Cash, and
\* the total is the price of the one that is owed.
C23_Witness ==
    /\ lastOp.op = "SelectInvoiceClient"
    /\ Len(invoiceRows) = 3
    /\ \E i \in 1..3 : invoiceRows[i].balance = invoiceRows[i].price
    /\ \E i \in 1..3 : /\ filteredOrders[i].paymentMethod = "Postpaid"
                       /\ filteredOrders[i].paid
                       /\ invoiceRows[i].balance = 0
    /\ \E i \in 1..3 : /\ filteredOrders[i].paymentMethod = "Cash"
                       /\ invoiceRows[i].balance = 0
    /\ totalUnpaidAmount = 100

\* The order holds the fields of the draft and the paid flag.
HoldsOrderDraft(order, draft, paid) ==
    /\ order.date = draft.date
    /\ order.vehicle = draft.vehicle
    /\ order.clientName = draft.clientName
    /\ order.orderType = draft.orderType
    /\ order.location = draft.location
    /\ order.cost = draft.cost
    /\ order.price = draft.price
    /\ order.paymentMethod = draft.paymentMethod
    /\ order.paid = paid

\* C24: a successful save in add mode appends exactly one order at the end of
\* Orders, with the draft's fields and the draft's paid flag, and every order
\* stored before keeps its content and its position.
C24_AddAppendsOneOrder ==
    [][ (RanOk("handleSaveOrder") /\ editingOrderId = null) =>
            /\ Len(orders') = Len(orders) + 1
            /\ \A i \in 1..Len(orders) : orders'[i] = orders[i]
            /\ HoldsOrderDraft(orders'[Len(orders')], newOrder, orderPaid)
      ]_vars

\* C24 witness: after a Cash order saved at StartTime, a Postpaid order that is
\* not paid has just been saved one tick later and stands behind it.
C24_Witness ==
    /\ lastOp = Op("handleSaveOrder", "")
    /\ now = StartTime + 1
    /\ Len(orders) = 2
    /\ orders[1].id = toString(StartTime)
    /\ orders[1].paymentMethod = "Cash"
    /\ orders[2].id = toString(now)
    /\ orders[2].paymentMethod = "Postpaid"
    /\ ~orders[2].paid

\* C25: every order in Orders has a price > 0 and a date, a clientName and a
\* vehicle that are not empty; the store the app was first opened on held no
\* order, and every later startup loads orders that the app has stored.
C25_StoredOrdersAreComplete ==
    \A i \in 1..Len(orders) :
        /\ orders[i].price > 0
        /\ orders[i].date # << >>
        /\ orders[i].clientName # << >>
        /\ orders[i].vehicle # ""

\* C25 witness: 'Add new client' was picked in the draft's client select, which
\* empties the draft's clientName; the save of the otherwise complete draft has
\* just been refused and Orders holds the one order saved before.
C25_Witness ==
    /\ lastOp.op = "handleSaveOrder"
    /\ lastOp.alert # ""
    /\ newOrder.clientName = << >>
    /\ newOrder.date # << >>
    /\ newOrder.vehicle # ""
    /\ newOrder.price > 0
    /\ editingOrderId = null
    /\ Len(orders) = 1

\* Orders without the order at position i.
WithoutPosition(s, i) == SubSeq(s, 1, i - 1) \o SubSeq(s, i + 1, Len(s))

\* C26: a delete removes exactly one order, the one with the id, the others
\* staying with their field values and in their order, or leaves Orders as it
\* is (the delete was not confirmed or no order has the id).
C26_DeleteRemovesExactlyOne ==
    [][ (Ran("handleDeleteOrder") /\ orders' # orders) =>
            \E i \in 1..Len(orders) : orders' = WithoutPosition(orders, i)
      ]_vars

\* C27: while an order is being edited, Orders holds an order with the id in
\* editingOrderId.
C27_EditedOrderIsStored ==
    editingOrderId # null => \E i \in 1..Len(orders) : orders[i].id = editingOrderId

\* C27 witness: while the second order is being edited the first order has just
\* been deleted; edit mode goes on and the edited order is the one left.
C27_Witness ==
    /\ lastOp.op = "handleDeleteOrder"
    /\ editingOrderId = toString(StartTime + 1)
    /\ Len(orders) = 1
    /\ orders[1].id = editingOrderId

\* C30: a save that directly follows handleEditOrder, the draft being as
\* handleEditOrder filled it, leaves Orders as it was.
C30_EditThenSaveKeepsOrders ==
    [][ (lastOp.op = "handleEditOrder" /\ Ran("handleSaveOrder")) => orders' = orders ]_vars

\* C28: once startup has completed, the invoice selection is '' or the name of
\* a client in Clients.
C28_SelectionNamesAClient ==
    phase = "ready" =>
        \/ selectedClientForInvoice = << >>
        \/ \E i \in 1..Len(clients) : clients[i].name = selectedClientForInvoice

\* C29: when the page is opened again, every step of the startup sequence (the
\* load effect, the save effects on the initial state, the save effects on the
\* loaded state) leaves in the store the Orders, Expenses and Clients that
\* were stored when the page was closed.
C29_StartupKeepsTheStore ==
    [][ ((Ran("LoadEffect") \/ Ran("SaveEffectsOnMount") \/ Ran("SaveEffectsOnLoaded"))
            /\ ~closed.open) =>
            /\ StoredIs(store'.orders, closed.orders)
            /\ StoredIs(store'.expenses, closed.expenses)
            /\ StoredIs(store'.clients, closed.clients)
      ]_vars

\* C22: when the write of Orders that a save or a delete of an order triggers
\* fails, the changed Orders stays in memory and the page goes on accepting
\* operations on it; when the write succeeds, the store holds the whole of
\* Orders as it then is.
C22_FailedWriteKeepsTheMutation ==
    [][ ((Ran("handleSaveOrder") \/ Ran("handleDeleteOrder")) /\ orders' # orders) =>
            IF quotaExceeded
            THEN phase' = "ready"
            ELSE StoredIs(store'.orders, orders')
      ]_vars

====
